---- MODULE Spec2Model ----
(***************************************************************************)
(* A model of lib/pytorch_trainer_v2_mod.py: the DeepNetTrainer epoch and  *)
(* batch loop (fit_loader) with its callback protocol, the ModelCheckpoint *)
(* and SGDRestarts callbacks, the checkpoint files, and lr_find.           *)
(*                                                                         *)
(* Model weights are an abstract number: every optimizer step on the       *)
(* model's parameters yields the next number, loading a state dict sets it *)
(* back to the stored one.  Losses are natural numbers; None is -1.        *)
(***************************************************************************)
EXTENDS Integers, Sequences, FiniteSets, TLC

VARIABLES
    \* ---- DeepNetTrainer fields
    model,           \* self.model's parameters
    opt_steps,       \* number of self.optimizer.step() calls so far
    metrics,         \* self.metrics: phase -> metric name -> list
    last_epoch,      \* self.last_epoch
    has_validation,  \* self.has_validation
    n_batches,       \* self.n_batches
    train_loss,      \* self.train_loss (Unset until first assigned)
    valid_loss,      \* self.valid_loss (Unset until first assigned)
    callbacks,       \* self.callbacks: the kinds, in registration order
    trainer_of,      \* cb.trainer of every registered callback
    scheduler,       \* the class of self.scheduler ("none": no scheduler)
    size_average,    \* criterion has a truthy size_average attribute
    \* ---- callback objects
    ck,              \* the ModelCheckpoint's fields
    sg,              \* the SGDRestarts' fields
    am,              \* the AccuracyMetric's fields
    lr,              \* optimizer.param_groups[0]['lr'], as set by SGDRestarts
    \* ---- storage
    files,           \* basename -> NoFile or the two artifacts
    other,           \* a second, fresh trainer that loads a saved state
    \* ---- data
    train_data,      \* the training loader: the batch sizes, in order
    valid_data,      \* the validation loader: the batch sizes, in order
    loss_values,     \* the losses the criterion can return on the batches
                     \* of each loader
    \* ---- position inside fit_loader / lr_find
    pc,
    cbi,             \* index of the next callback in a "for cb in callbacks"
    n_epochs,
    curr_epoch,
    end_epoch,       \* last value of range(last_epoch+1, last_epoch+n_epochs+1)
    curr_batch,
    epo_loss,
    epo_samples,
    lf,              \* lr_find's locals and how it ended (gone at the next
                     \* fit call)
    \* ---- observation
    outcome,         \* the last fit_loader call: none/running/returned/raised
    interrupted,     \* a KeyboardInterrupt was caught in this fit_loader call
    hooks,           \* the hooks invoked in this fit_loader call, in order,
                     \* and the KeyboardInterrupt where it was caught
    batches,         \* the batches processed in this fit_loader call: the
                     \* phase, epoch, size, loss and argmax matches of each
    sched_steps,     \* the arguments of the scheduler.step calls of this
                     \* fit_loader call, in order
    pre,             \* the trainer's state when the current call began
    calls,           \* the fit_loader calls finished so far
    fits_left,
    epochs_left,
    lr_finds_left,
    saves_left

vars == <<model, opt_steps, metrics, last_epoch, has_validation, n_batches,
          train_loss, valid_loss, callbacks, trainer_of, scheduler,
          size_average, ck, sg, am, lr, files, other, train_data, valid_data,
          loss_values, pc, cbi, n_epochs, curr_epoch, end_epoch, curr_batch,
          epo_loss, epo_samples, lf, outcome, interrupted, hooks, batches,
          sched_steps, pre, calls, fits_left, epochs_left, lr_finds_left,
          saves_left>>

----------------------------------------------------------------------------
\* Bounds of the model

\* epochs over all fit calls of a run with a ModelCheckpoint
MaxEpochs == 3
\* epochs of the run that checkpoints a longer loss sequence
MaxEpochsLong == 4
\* epochs over all fit calls of a run with validation data at hand
MaxEpochsValid == 2
\* epochs over all fit calls of a run that drives SGDRestarts
MaxEpochsSGDR == 6
\* epochs over all fit calls of a run that also calls lr_find
MaxEpochsLr == 1
\* fit calls per run
MaxFits == 2
\* lr_find calls per run
MaxLrFinds == 1
\* batches of the loader given to lr_find
MaxLrBatches == 2
\* epochs over all fit calls of a run with an AccuracyMetric
MaxEpochsAcc == 2
\* save_state calls per run
MaxSaves == 1

----------------------------------------------------------------------------
\* Values

None == -1

\* an attribute __init__ does not assign (train_loss, valid_loss) before its
\* first assignment in fit_loader: reading it raises AttributeError
Unset == -2

NoFile == [exists |-> FALSE]

\* ModelCheckpoint.on_train_begin: self.best_loss = 1e10.  Losses are counted
\* in units of 10, so that the sentinel fits a machine integer.
BEST_LOSS_INIT == 1000000000

\* lr_find: best = 1e9, in the same unit
LR_FIND_BEST_INIT == 100000000

\* lr_find: iloss > best * 10000
LR_FIND_BLOWUP == 10000

Max(a, b) == IF a >= b THEN a ELSE b

Last(s) == s[Len(s)]


\* an "or" that only passes over None
PyOrNoneOnly(a, b) == IF a = None THEN b ELSE a

\* Python's "a or b" on a loss: None and 0 are falsy
PyOr(a, b) == IF a = None \/ a = 0 THEN b ELSE a

EmptyMetrics == [train |-> [losses |-> <<>>], valid |-> [losses |-> <<>>]]

\* dict.update of the MetricStore with an unpickled one: every phase the
\* loaded dict holds replaces the live one
MetricsUpdate(m, loaded) ==
    [k \in DOMAIN m |-> IF k \in DOMAIN loaded THEN loaded[k] ELSE m[k]]

----------------------------------------------------------------------------
\* The state a callback hook or a state load/save can touch, as one record

\* no batch has been processed in this call
NoBatch == [phase |-> "none", epoch |-> 0, batch |-> 0, size |-> 0,
            loss |-> 0, k |-> 0]

\* y is the batch at hand: what on_batch_end / on_vbatch_end are passed
HookState ==
    [model |-> model, metrics |-> metrics, last_epoch |-> last_epoch,
     ck |-> ck, sg |-> sg, am |-> am, lr |-> lr, files |-> files,
     y |-> IF batches = <<>> THEN NoBatch ELSE batches[Len(batches)],
     exc |-> "none"]

\* a load that restores the history and leaves the model's weights alone
load_trainer_state_metrics_only(s, b) ==
    IF ~s.files[b].exists
    THEN [s EXCEPT !.exc = "FileNotFoundError"]
    ELSE [s EXCEPT !.metrics = MetricsUpdate(@, s.files[b].histo)]

\* load_trainer_state(file_basename, model, metrics); torch.load raises when
\* the .model artifact is missing
load_trainer_state(s, b) ==
    IF ~s.files[b].exists
    THEN [s EXCEPT !.exc = "FileNotFoundError"]
    ELSE [s EXCEPT !.model = s.files[b].model,
                   !.metrics = MetricsUpdate(@, s.files[b].histo)]

\* a save that writes the model's weights and an empty history
save_trainer_state_model_only(s, b) ==
    [s EXCEPT !.files[b] = [exists |-> TRUE, model |-> s.model,
                            histo |-> EmptyMetrics]]

\* save_trainer_state(file_basename, model, metrics)
save_trainer_state(s, b) ==
    [s EXCEPT !.files[b] = [exists |-> TRUE, model |-> s.model,
                            histo |-> s.metrics]]

\* DeepNetTrainer.load_state
load_state(s, b) ==
    LET a == load_trainer_state(s, b)
    IN  IF a.exc # "none" THEN a
        ELSE [a EXCEPT !.last_epoch = Len(a.metrics.train.losses)]

\* DeepNetTrainer.save_state
save_state(s, b) == save_trainer_state(s, b)

----------------------------------------------------------------------------
\* ModelCheckpoint

\* a comparison that takes an equal loss for an improvement
IsBetterOrEqual(eloss, best) == eloss <= best

\* the comparison of on_epoch_end: eloss < self.best_loss
IsBetter(eloss, best) == eloss < best

ModelCheckpoint_on_train_begin(s) ==
    LET a  == IF ~s.ck.reset /\ s.files.ckpt.exists
              THEN load_trainer_state(s, "ckpt") ELSE s
        le == Len(a.metrics.train.losses)
        b  == [a EXCEPT !.last_epoch = le,
                        !.ck.best_model = a.model,
                        !.ck.best_epoch = le,
                        !.ck.best_loss = BEST_LOSS_INIT]
    IN  IF le = 0 THEN b
        ELSE IF Len(b.metrics.valid.losses) = 0
             THEN [b EXCEPT !.exc = "IndexError"]
             ELSE [b EXCEPT !.ck.best_loss =
                       PyOr(Last(b.metrics.valid.losses),
                            Last(b.metrics.train.losses))]

ModelCheckpoint_on_train_end(s) ==
    IF s.ck.load_best THEN load_trainer_state(s, "ckpt") ELSE s

ModelCheckpoint_on_epoch_end(s, epoch) ==
    LET eloss == PyOr(Last(s.metrics.valid.losses),
                      Last(s.metrics.train.losses))
    IN  IF IsBetter(eloss, s.ck.best_loss)
        THEN save_trainer_state(
                 [s EXCEPT !.ck.best_loss = eloss,
                           !.ck.best_epoch = epoch,
                           !.ck.best_model = s.model,
                           !.ck.saved = Append(@, epoch)],
                 "ckpt")
        ELSE s

----------------------------------------------------------------------------
\* SGDRestarts

\* get_lr: the schedule state after the call and the cosine phase x, kept as
\* the exact fraction x = num / den
SGDRestarts_get_lr(g, nb, cepoch, cbatch) ==
    LET a == IF g.last_epoch = -1
             THEN [g EXCEPT !.last_epoch = cepoch]
             ELSE IF cepoch > g.last_epoch
                  THEN [g EXCEPT !.last_epoch = cepoch, !.Tcur = @ + 1]
                  ELSE g
        b == IF a.Tcur = a.Ti
             THEN [a EXCEPT !.Tcur = 0,
                            !.restarts = @ + 1,
                            !.Ti = a.To * (a.Tmul ^ (a.restarts + 1))]
             ELSE a
    IN  [g   |-> b,
         num |-> b.Ti * (b.Tcur * nb + cbatch),
         den |-> Max(1, b.Ti * nb - 1)]

\* step(epoch, batch) with a batch: every param group's lr is set to
\* eta_min + (initial_lr - eta_min) * (1 + cos(x * pi / Ti)) / 2, recorded by
\* the phase x = num / den and the period Ti it was computed with
SGDRestarts_step(s, nb, epoch, batch) ==
    LET r == SGDRestarts_get_lr(s.sg, nb, epoch, batch)
    IN  [s EXCEPT !.sg = [r.g EXCEPT !.last_epoch = epoch],
                  !.lr = [set |-> TRUE, num |-> r.num, den |-> r.den,
                          Ti |-> r.g.Ti]]

SGDRestarts_on_train_begin(s) ==
    [s EXCEPT !.sg.last_epoch = s.last_epoch]

SGDRestarts_on_batch_begin(s, nb, cepoch, cbatch) ==
    SGDRestarts_step(s, nb, cepoch, cbatch)

----------------------------------------------------------------------------
\* AccuracyMetric

\* 1.0 * accum / n, kept as the exact fraction
Ratio(accum, n) == [num |-> accum, den |-> n]

\* metrics[phase]['acc'].append(v); a phase without the list: KeyError
AppendAcc(s, phase, v) ==
    IF "acc" \in DOMAIN s.metrics[phase]
    THEN [s EXCEPT !.metrics[phase].acc = Append(@, v)]
    ELSE [s EXCEPT !.exc = "KeyError"]

\* metrics['train']['acc'] = [] and metrics['valid']['acc'] = []
AccuracyMetric_on_train_begin(s) ==
    [s EXCEPT !.metrics =
        [ph \in DOMAIN s.metrics |->
            [name \in DOMAIN s.metrics[ph] \cup {"acc"} |->
                IF name = "acc" THEN <<>> ELSE s.metrics[ph][name]]]]

\* an on_epoch_begin that leaves the counters as they are
AccuracyMetric_on_epoch_begin_keeps(s) == s

\* self.train_accum = 0 ... self.n_valid_samples = 0
AccuracyMetric_on_epoch_begin(s) ==
    [s EXCEPT !.am = [train_accum |-> 0, valid_accum |-> 0,
                      n_train_samples |-> 0, n_valid_samples |-> 0]]

AccuracyMetric_on_batch_end(s) ==
    [s EXCEPT !.am.train_accum = @ + s.y.k,
              !.am.n_train_samples = @ + s.y.size]

AccuracyMetric_on_vbatch_end(s) ==
    [s EXCEPT !.am.valid_accum = @ + s.y.k,
              !.am.n_valid_samples = @ + s.y.size]

AccuracyMetric_on_epoch_end(s) ==
    LET a == IF s.am.n_train_samples > 0
             THEN AppendAcc(s, "train",
                            Ratio(s.am.train_accum, s.am.n_train_samples))
             ELSE s
    IN  IF a.exc # "none" THEN a
        ELSE IF s.am.n_valid_samples > 0
             THEN AppendAcc(a, "valid",
                            Ratio(s.am.valid_accum, s.am.n_valid_samples))
             ELSE a

----------------------------------------------------------------------------
\* PrintCallback

\* on_epoch_end reads metric_values[-1] of every metric list of the train
\* phase and, the valid phase having at least its 'losses' key, of every
\* metric list of the valid phase: IndexError on an empty list
PrintCallback_on_epoch_end(s) ==
    IF \E ph \in {"train", "valid"} :
          \E name \in DOMAIN s.metrics[ph] : s.metrics[ph][name] = <<>>
    THEN [s EXCEPT !.exc = "IndexError"]
    ELSE s

----------------------------------------------------------------------------
\* Callback dispatch: what hook h of a callback of the given kind does

HookNames ==
    {"on_train_begin", "on_epoch_begin", "on_batch_begin", "on_batch_end",
     "on_vbatch_begin", "on_vbatch_end", "on_epoch_end", "on_train_end"}

HookEffect(h, kind, s, nb, epoch, batch) ==
    CASE kind = "ckpt" /\ h = "on_train_begin" -> ModelCheckpoint_on_train_begin(s)
      [] kind = "ckpt" /\ h = "on_epoch_end"   -> ModelCheckpoint_on_epoch_end(s, epoch)
      [] kind = "ckpt" /\ h = "on_train_end"   -> ModelCheckpoint_on_train_end(s)
      [] kind = "sgdr" /\ h = "on_train_begin" -> SGDRestarts_on_train_begin(s)
      [] kind = "sgdr" /\ h = "on_batch_begin" ->
             SGDRestarts_on_batch_begin(s, nb, epoch, batch)
      [] kind = "acc" /\ h = "on_train_begin" -> AccuracyMetric_on_train_begin(s)
      [] kind = "acc" /\ h = "on_epoch_begin" -> AccuracyMetric_on_epoch_begin(s)
      [] kind = "acc" /\ h = "on_batch_end"   -> AccuracyMetric_on_batch_end(s)
      [] kind = "acc" /\ h = "on_vbatch_end"  -> AccuracyMetric_on_vbatch_end(s)
      [] kind = "acc" /\ h = "on_epoch_end"   -> AccuracyMetric_on_epoch_end(s)
      [] kind = "print" /\ h = "on_epoch_end" -> PrintCallback_on_epoch_end(s)
      [] OTHER -> s

----------------------------------------------------------------------------
\* The runs the model explores: a trainer as constructed, its data, and how
\* many calls are made on it

\* the losses of the training and of the validation batches, and which of
\* the predictions on a batch match the targets ("none" or "all" of them)
Losses(t, v) == [train |-> t, valid |-> v, matched |-> {"none"}]

\* the same, with the predictions an AccuracyMetric can observe
LossesMatched(t, v, m) == [Losses(t, v) EXCEPT !.matched = m]

\* no validation loader at hand: fit is called with valid_data=None
NoLoader == <<>>

NewCheckpoint(reset, load_best) ==
    [reset |-> reset, load_best |-> load_best, best_loss |-> None,
     best_epoch |-> None, best_model |-> None, saved |-> <<>>]

\* SGDRestarts.__init__ with last_epoch = -1
NewSGDRestarts(To, Tmul) ==
    [To |-> To, Tmul |-> Tmul, Ti |-> To, Tcur |-> 0, restarts |-> 0,
     last_epoch |-> -1]

NoLr == [set |-> FALSE]

\* AccuracyMetric.__init__ assigns no counter; on_epoch_begin does, before
\* any hook reads one
NoAccuracy == [train_accum |-> 0, valid_accum |-> 0,
               n_train_samples |-> 0, n_valid_samples |-> 0]

\* the second trainer before it has loaded anything
NoOther == [loaded |-> FALSE, model |-> 0, metrics |-> EmptyMetrics,
            last_epoch |-> 0, exc |-> "none"]

NoLrFind == [i |-> 0, n |-> 0, num_it |-> 0, best |-> LR_FIND_BEST_INIT,
             lrs |-> <<>>, losses |-> <<>>, exc |-> "none",
             outcome |-> "none"]

\* the trainer's state when a call begins
Snapshot(call) ==
    [call |-> call, prev |-> pre.call, last_epoch |-> last_epoch,
     model |-> model, opt_steps |-> opt_steps, metrics |-> metrics,
     files |-> files]

\* no call has begun yet
NoCall ==
    [call |-> "none", prev |-> "none", last_epoch |-> 0, model |-> 0,
     opt_steps |-> 0, metrics |-> EmptyMetrics,
     files |-> [ckpt |-> NoFile, tmp |-> NoFile, user |-> NoFile]]


\* DeepNetTrainer.__init__ and the position before any call
InitTrainer ==
    /\ model = 0
    /\ opt_steps = 0
    /\ metrics = EmptyMetrics
    /\ last_epoch = 0
    /\ has_validation = FALSE
    /\ n_batches = 0
    /\ train_loss = Unset
    /\ valid_loss = Unset
    /\ lr = NoLr
    /\ am = NoAccuracy
    /\ other = NoOther
    /\ batches = <<>>
    /\ sched_steps = <<>>
    /\ files = [ckpt |-> NoFile, tmp |-> NoFile, user |-> NoFile]
    /\ pc = "idle"
    /\ cbi = 1
    /\ n_epochs = 0
    /\ curr_epoch = 0
    /\ end_epoch = 0
    /\ curr_batch = 0
    /\ epo_loss = 0
    /\ epo_samples = 0
    /\ lf = NoLrFind
    /\ outcome = "none"
    /\ interrupted = FALSE
    /\ hooks = <<>>
    /\ pre = NoCall
    /\ calls = <<>>

\* a ModelCheckpoint (any reset / load_best) followed by a plain Callback,
\* trained without validation data on a one-batch loader
InitCheckpoint ==
    /\ InitTrainer
    /\ callbacks = <<"ckpt", "plain">>
    /\ size_average = FALSE
    /\ \E r \in BOOLEAN, b \in BOOLEAN : ck = NewCheckpoint(r, b)
    /\ sg = NewSGDRestarts(4, 1)
    /\ train_data = <<1>>
    /\ valid_data = NoLoader
    /\ loss_values = Losses({4, 5}, {})
    /\ fits_left = MaxFits
    /\ epochs_left = MaxEpochs
    /\ lr_finds_left = 0
    /\ scheduler = "none"
    /\ saves_left = 0

\* a ModelCheckpoint alone, on data with a wider range of losses
InitLong ==
    /\ InitTrainer
    /\ callbacks = <<"ckpt">>
    /\ size_average = FALSE
    /\ ck = NewCheckpoint(FALSE, FALSE)
    /\ sg = NewSGDRestarts(4, 1)
    /\ train_data = <<1>>
    /\ valid_data = NoLoader
    /\ loss_values = Losses({4, 5, 6}, {})
    /\ fits_left = MaxFits - 1
    /\ epochs_left = MaxEpochsLong
    /\ lr_finds_left = 0
    /\ scheduler = "none"
    /\ saves_left = 0

\* a trainer with a plain Callback only, with validation data at hand
InitValidation ==
    /\ InitTrainer
    /\ callbacks = <<"plain">>
    /\ size_average = FALSE
    /\ ck = NewCheckpoint(FALSE, FALSE)
    /\ sg = NewSGDRestarts(4, 1)
    /\ train_data = <<1>>
    /\ valid_data = <<1>>
    /\ loss_values = Losses({3}, {0, 3})
    /\ fits_left = MaxFits
    /\ epochs_left = MaxEpochsValid
    /\ lr_finds_left = 0
    /\ scheduler = "none"
    /\ saves_left = 0

\* a ModelCheckpoint (any reset / load_best) with validation data at hand
InitCheckpointValidation ==
    /\ InitTrainer
    /\ callbacks = <<"ckpt", "plain">>
    /\ size_average = FALSE
    /\ \E r \in BOOLEAN, b \in BOOLEAN : ck = NewCheckpoint(r, b)
    /\ sg = NewSGDRestarts(4, 1)
    /\ train_data = <<1>>
    /\ valid_data = <<1>>
    /\ loss_values = Losses({4}, {0, 3})
    /\ fits_left = MaxFits
    /\ epochs_left = MaxEpochsValid
    /\ lr_finds_left = 0
    /\ scheduler = "none"
    /\ saves_left = 0

\* one fit call on loaders of two batches of different sizes, with either
\* kind of criterion
InitBatches ==
    /\ InitTrainer
    /\ callbacks = <<"plain", "plain">>
    /\ size_average \in BOOLEAN
    /\ ck = NewCheckpoint(FALSE, FALSE)
    /\ sg = NewSGDRestarts(4, 1)
    /\ train_data = <<2, 1>>
    /\ valid_data = <<2, 1>>
    /\ loss_values = Losses({0, 3}, {0, 3})
    /\ fits_left = 1
    /\ epochs_left = MaxEpochsValid
    /\ lr_finds_left = 0
    /\ scheduler = "none"
    /\ saves_left = 0

\* a trainer on which lr_find is called before or after fit calls
InitLrFind ==
    /\ InitTrainer
    /\ callbacks = <<"plain">>
    /\ size_average = FALSE
    /\ ck = NewCheckpoint(FALSE, FALSE)
    /\ sg = NewSGDRestarts(4, 1)
    /\ train_data = <<1>>
    /\ valid_data = NoLoader
    /\ loss_values = Losses({3}, {})
    /\ fits_left = MaxFits - 1
    /\ epochs_left = MaxEpochsLr
    /\ lr_finds_left = MaxLrFinds
    /\ scheduler = "none"
    /\ saves_left = 0

\* a trainer with SGDRestarts registered as a callback (To in {2, 4}, Tmul
\* in {1, 2}), on one or two batches per epoch
InitSGDR ==
    /\ InitTrainer
    /\ callbacks = <<"sgdr">>
    /\ size_average = FALSE
    /\ ck = NewCheckpoint(FALSE, FALSE)
    /\ \E To \in {2, 4}, Tmul \in {1, 2} : sg = NewSGDRestarts(To, Tmul)
    /\ train_data \in {<<1>>, <<1, 1>>}
    /\ valid_data = NoLoader
    /\ loss_values = Losses({3}, {})
    /\ fits_left = MaxFits - 1
    /\ epochs_left = MaxEpochsSGDR
    /\ lr_finds_left = 0
    /\ scheduler = "none"
    /\ saves_left = 0

\* one fit call with an AccuracyMetric, on a two-batch training loader
InitAccuracy ==
    /\ InitTrainer
    /\ callbacks = <<"acc">>
    /\ size_average = FALSE
    /\ ck = NewCheckpoint(FALSE, FALSE)
    /\ sg = NewSGDRestarts(4, 1)
    /\ train_data = <<2, 1>>
    /\ valid_data = <<1>>
    /\ loss_values = LossesMatched({3}, {3}, {"none", "all"})
    /\ fits_left = 1
    /\ epochs_left = MaxEpochsAcc
    /\ lr_finds_left = 0
    /\ scheduler = "none"
    /\ saves_left = 0

\* fit calls with an AccuracyMetric; the state is saved before, between or
\* after the calls and loaded into a second trainer
InitAccuracyFits ==
    /\ InitTrainer
    /\ callbacks = <<"acc">>
    /\ size_average = FALSE
    /\ ck = NewCheckpoint(FALSE, FALSE)
    /\ sg = NewSGDRestarts(4, 1)
    /\ train_data = <<1>>
    /\ valid_data = <<1>>
    /\ loss_values = LossesMatched({3}, {3}, {"all"})
    /\ fits_left = 2
    /\ epochs_left = MaxEpochsAcc
    /\ lr_finds_left = 0
    /\ scheduler = "none"
    /\ saves_left = MaxSaves

\* a trainer with a scheduler attached: a ReduceLROnPlateau or one of
\* another class
InitScheduler ==
    /\ InitTrainer
    /\ callbacks = <<"plain">>
    /\ size_average = FALSE
    /\ ck = NewCheckpoint(FALSE, FALSE)
    /\ sg = NewSGDRestarts(4, 1)
    /\ train_data = <<1>>
    /\ valid_data = <<1>>
    /\ loss_values = Losses({3}, {3, 4})
    /\ fits_left = MaxFits
    /\ epochs_left = MaxEpochsValid
    /\ lr_finds_left = 0
    /\ scheduler \in {"ReduceLROnPlateau", "StepLR"}
    /\ saves_left = 0

\* a PrintCallback, alone or with an AccuracyMetric registered before or
\* after it
InitPrint ==
    /\ InitTrainer
    /\ callbacks \in {<<"print">>, <<"acc", "print">>, <<"print", "acc">>}
    /\ size_average = FALSE
    /\ ck = NewCheckpoint(FALSE, FALSE)
    /\ sg = NewSGDRestarts(4, 1)
    /\ train_data = <<1>>
    /\ valid_data = <<1>>
    /\ loss_values = LossesMatched({3}, {3}, {"all"})
    /\ fits_left = 1
    /\ epochs_left = MaxEpochsValid
    /\ lr_finds_left = 0
    /\ scheduler = "none"
    /\ saves_left = 0

\* lines 39-43: every callback passed to __init__ is registered in order and
\* gets the trainer as its back-reference
Init ==
    /\ \/ InitCheckpoint
       \/ InitLong
       \/ InitValidation
       \/ InitCheckpointValidation
       \/ InitBatches
       \/ InitLrFind
       \/ InitSGDR
       \/ InitAccuracy
       \/ InitAccuracyFits
       \/ InitScheduler
       \/ InitPrint
    /\ trainer_of = [i \in DOMAIN callbacks |-> "self"]

----------------------------------------------------------------------------
\* fit_loader

\* the (epoch, batch) a hook is called with; the train hooks get neither
HookRecord(h, i) ==
    [h |-> h, cb |-> i,
     epoch |-> IF h \in {"on_train_begin", "on_train_end"} THEN 0
               ELSE curr_epoch,
     batch |-> IF h \in {"on_batch_begin", "on_batch_end",
                         "on_vbatch_begin", "on_vbatch_end"}
               THEN curr_batch ELSE 0]

\* the record of a finished fit_loader call
CallRecord(outc, s) ==
    [n |-> n_epochs, valid |-> has_validation, outcome |-> outc,
     interrupted |-> interrupted, pre |-> pre,
     last_epoch |-> s.last_epoch, metrics |-> s.metrics]

SetHookState(s) ==
    /\ model' = s.model
    /\ metrics' = s.metrics
    /\ last_epoch' = s.last_epoch
    /\ ck' = s.ck
    /\ sg' = s.sg
    /\ am' = s.am
    /\ lr' = s.lr
    /\ files' = s.files

Config ==
    <<callbacks, trainer_of, scheduler, size_average, train_data, valid_data,
      loss_values>>

\* fit_loader(n_epochs, train_data, valid_data), lines 87-89
Fit(n, v) ==
    /\ pc = "idle"
    /\ fits_left > 0
    /\ n <= epochs_left
    /\ v => valid_data # NoLoader
    /\ fits_left' = fits_left - 1
    /\ epochs_left' = epochs_left - n
    /\ has_validation' = v
    /\ n_batches' = Len(train_data)
    /\ n_epochs' = n
    /\ pc' = "on_train_begin"
    /\ cbi' = 1
    /\ outcome' = "running"
    /\ interrupted' = FALSE
    /\ hooks' = <<>>
    /\ batches' = <<>>
    /\ sched_steps' = <<>>
    /\ pre' = Snapshot("fit")
    /\ lf' = NoLrFind
    /\ UNCHANGED <<model, opt_steps, metrics, last_epoch, train_loss,
                   valid_loss, ck, am, sg, lr, files, curr_epoch, end_epoch,
                   curr_batch, epo_loss, epo_samples, calls,
                   lr_finds_left, Config, other, saves_left>>

\* the hooks of a call with the mark of an exception that left fit_loader
Raised(h) == Append(h, HookRecord("Exception", 0))

\* an iteration that passes over every second callback
NextCallbackSkips(i) == i + 2

\* "for cb in self.callbacks": the callback after the i-th
NextCallback(i) == i + 1

\* one iteration of a "for cb in self.callbacks: cb.<hook>(...)" loop; an
\* exception of the hook leaves fit_loader, unless the loop is inside the
\* try block and the exception is a KeyboardInterrupt (see Interrupt)
CallHook ==
    /\ pc \in HookNames
    /\ cbi <= Len(callbacks)
    /\ LET s == HookEffect(pc, callbacks[cbi], HookState, n_batches,
                           curr_epoch, curr_batch)
       IN  /\ SetHookState(s)
           /\ IF s.exc = "none"
              THEN /\ hooks' = Append(hooks, HookRecord(pc, cbi))
                   /\ cbi' = NextCallback(cbi)
                   /\ UNCHANGED <<pc, outcome, calls>>
              ELSE /\ hooks' = Raised(Append(hooks, HookRecord(pc, cbi)))
                   /\ pc' = "idle"
                   /\ outcome' = "raised"
                   /\ calls' = Append(calls, CallRecord("raised", s))
                   /\ UNCHANGED cbi
    /\ UNCHANGED <<opt_steps, has_validation, n_batches, train_loss,
                   valid_loss, n_epochs, curr_epoch, end_epoch, curr_batch,
                   epo_loss, epo_samples, lf, interrupted, pre, fits_left,
                   epochs_left, lr_finds_left, Config, batches,
                   sched_steps, other, saves_left>>

\* line 95: the range is computed once, after the on_train_begin hooks
StartEpochs ==
    /\ pc = "on_train_begin"
    /\ cbi > Len(callbacks)
    /\ curr_epoch' = last_epoch + 1
    /\ end_epoch' = last_epoch + n_epochs
    /\ pc' = IF n_epochs > 0 THEN "on_epoch_begin" ELSE "on_train_end"
    /\ cbi' = 1
    /\ UNCHANGED <<model, opt_steps, metrics, last_epoch, has_validation,
                   n_batches, train_loss, valid_loss, ck, am, sg, lr, files,
                   n_epochs, curr_batch, epo_loss, epo_samples, lf, outcome,
                   interrupted, hooks, pre, calls, fits_left, epochs_left,
                   lr_finds_left, Config, batches,
                   sched_steps, other, saves_left>>

\* an accumulation that never weights the loss by the batch size
AccumulateUnweighted(acc, vloss, mb_size) ==
    IF vloss = None THEN None ELSE acc + vloss

\* loss accumulation, lines 122-126 and 159-166: a None loss makes the
\* accumulator None
Accumulate(acc, vloss, mb_size) ==
    IF vloss = None THEN None
    ELSE IF size_average THEN acc + mb_size * vloss ELSE acc + vloss

\* float(epo_loss / epo_samples)
EpochLoss(acc, samples) == acc \div samples

\* an exit that handles every exception as the KeyboardInterrupt is handled
PropagateCaught ==
    /\ pc' = "on_train_end"
    /\ outcome' = outcome
    /\ hooks' = Raised(hooks)
    /\ calls' = calls

\* the exceptional exit of fit_loader: the exception propagates to the caller
Propagate ==
    /\ pc' = "idle"
    /\ outcome' = "raised"
    /\ hooks' = Raised(hooks)
    /\ calls' = Append(calls, CallRecord("raised", HookState))

\* an iteration that leaves out the loader's last batch
MoreBatchesSkipsLast(loader, b) == b + 2 < Len(loader)

\* "for curr_batch, (X, Y) in enumerate(loader)": another batch follows
\* batch b
MoreBatches(loader, b) == b + 1 < Len(loader)

\* lines 103-115: the accumulators are reset and the first batch is fetched;
\* with an empty loader line 132 divides by zero
StartTraining ==
    /\ pc = "on_epoch_begin"
    /\ cbi > Len(callbacks)
    /\ epo_loss' = 0
    /\ curr_batch' = 0
    /\ cbi' = 1
    /\ IF Len(train_data) > 0
       THEN /\ epo_samples' = train_data[1]
            /\ pc' = "on_batch_begin"
            /\ UNCHANGED <<outcome, calls, hooks>>
       ELSE /\ epo_samples' = 0
            /\ Propagate
    /\ UNCHANGED <<model, opt_steps, metrics, last_epoch, has_validation,
                   n_batches, train_loss, valid_loss, ck, am, sg, lr, files,
                   n_epochs, curr_epoch, end_epoch, lf, interrupted, pre,
                   fits_left, epochs_left, lr_finds_left, Config, batches,
                   sched_steps, other, saves_left>>

\* the number of samples of a batch whose argmax prediction matches the
\* target: none or all of them (observed by an AccuracyMetric only)
Matches(mb_size) ==
    {IF m = "all" THEN mb_size ELSE 0 : m \in loss_values.matched}

\* the batch at hand, as the hooks of its end are passed it
Batch(phase, mb_size, vloss, k) ==
    [phase |-> phase, epoch |-> curr_epoch, batch |-> curr_batch,
     size |-> mb_size, loss |-> vloss, k |-> k]

\* lines 120-126: _do_optimize steps the trainer's optimizer on the model
DoOptimize ==
    /\ pc = "on_batch_begin"
    /\ cbi > Len(callbacks)
    /\ LET mb_size == train_data[curr_batch + 1]
       IN  \E vloss \in loss_values.train, k \in Matches(mb_size) :
              /\ epo_loss' = Accumulate(epo_loss, vloss, mb_size)
              /\ batches' = Append(batches,
                                   Batch("train", mb_size, vloss, k))
    /\ model' = model + 1
    /\ opt_steps' = opt_steps + 1
    /\ pc' = "on_batch_end"
    /\ cbi' = 1
    /\ UNCHANGED <<metrics, last_epoch, has_validation, n_batches, train_loss,
                   valid_loss, ck, am, sg, lr, files, n_epochs, curr_epoch,
                   end_epoch, curr_batch, epo_samples, lf, outcome,
                   interrupted, hooks, pre, calls, fits_left, epochs_left,
                   lr_finds_left, Config, sched_steps, other, saves_left>>

\* the MetricStore with v appended to a phase's losses
AppendLoss(m, phase, v) == [m EXCEPT ![phase].losses = Append(@, v)]

\* after the on_batch_end hooks: the next batch, or lines 132-152 and 179
EndBatch ==
    /\ pc = "on_batch_end"
    /\ cbi > Len(callbacks)
    /\ cbi' = 1
    /\ IF MoreBatches(train_data, curr_batch)
       THEN /\ curr_batch' = curr_batch + 1
            /\ epo_samples' = epo_samples + train_data[curr_batch + 2]
            /\ pc' = "on_batch_begin"
            /\ UNCHANGED <<metrics, train_loss, epo_loss, outcome, calls,
                           hooks>>
       ELSE LET tl == EpochLoss(epo_loss, epo_samples)
                m  == AppendLoss(metrics, "train", tl)
            IN  /\ train_loss' = tl
                /\ IF has_validation
                   THEN /\ metrics' = m
                        /\ epo_loss' = 0
                        /\ curr_batch' = 0
                        /\ IF Len(valid_data) > 0
                           THEN /\ epo_samples' = valid_data[1]
                                /\ pc' = "on_vbatch_begin"
                                /\ UNCHANGED <<outcome, calls, hooks>>
                           ELSE /\ epo_samples' = 0
                                /\ pc' = "idle"
                                /\ outcome' = "raised"
                                /\ hooks' = Raised(hooks)
                                /\ calls' = Append(calls,
                                      CallRecord("raised",
                                          [HookState EXCEPT !.metrics = m]))
                   ELSE /\ metrics' = AppendLoss(m, "valid", None)
                        /\ pc' = "on_epoch_end"
                        /\ UNCHANGED <<epo_loss, epo_samples, curr_batch,
                                       outcome, calls, hooks>>
    /\ UNCHANGED <<model, opt_steps, last_epoch, has_validation, n_batches,
                   valid_loss, ck, am, sg, lr, files, n_epochs, curr_epoch,
                   end_epoch, lf, interrupted, pre, fits_left, epochs_left,
                   lr_finds_left, Config, batches, sched_steps, other,
                   saves_left>>

\* lines 157-166: _do_evaluate; the model is not changed
DoEvaluate ==
    /\ pc = "on_vbatch_begin"
    /\ cbi > Len(callbacks)
    /\ LET mb_size == valid_data[curr_batch + 1]
       IN  \E vloss \in loss_values.valid, k \in Matches(mb_size) :
              /\ epo_loss' = Accumulate(epo_loss, vloss, mb_size)
              /\ batches' = Append(batches,
                                   Batch("valid", mb_size, vloss, k))
    /\ pc' = "on_vbatch_end"
    /\ cbi' = 1
    /\ UNCHANGED <<model, opt_steps, metrics, last_epoch, has_validation,
                   n_batches, train_loss, valid_loss, ck, am, sg, lr, files,
                   n_epochs, curr_epoch, end_epoch, curr_batch, epo_samples,
                   lf, outcome, interrupted, hooks, pre, calls, fits_left,
                   epochs_left, lr_finds_left, Config, sched_steps, other,
                   saves_left>>

\* after the on_vbatch_end hooks: the next batch, or lines 172-176
EndVBatch ==
    /\ pc = "on_vbatch_end"
    /\ cbi > Len(callbacks)
    /\ cbi' = 1
    /\ IF MoreBatches(valid_data, curr_batch)
       THEN /\ curr_batch' = curr_batch + 1
            /\ epo_samples' = epo_samples + valid_data[curr_batch + 2]
            /\ pc' = "on_vbatch_begin"
            /\ UNCHANGED <<metrics, valid_loss>>
       ELSE LET vl == IF epo_loss = None THEN None
                      ELSE EpochLoss(epo_loss, epo_samples)
            IN  /\ valid_loss' = vl
                /\ metrics' = AppendLoss(metrics, "valid", vl)
                /\ pc' = "on_epoch_end"
                /\ UNCHANGED <<curr_batch, epo_samples>>
    /\ UNCHANGED <<model, opt_steps, last_epoch, has_validation, n_batches,
                   train_loss, ck, am, sg, lr, files, n_epochs, curr_epoch,
                   end_epoch, epo_loss, lf, outcome, interrupted, hooks, pre,
                   calls, fits_left, epochs_left, lr_finds_left, Config, batches,
                   sched_steps, other, saves_left>>

\* lines 184-188: the scheduler's step of an epoch.  A ReduceLROnPlateau
\* gets self.valid_loss when that is not None; the attribute exists only
\* once a validation phase has assigned it
SchedulerStep(kind, vloss, epoch) ==
    IF kind = "ReduceLROnPlateau" /\ vloss = Unset
    THEN [exc |-> "AttributeError"]
    ELSE IF kind = "ReduceLROnPlateau" /\ vloss # None
         THEN [exc |-> "none", epoch |-> epoch, with_arg |-> TRUE,
               arg |-> vloss]
         ELSE [exc |-> "none", epoch |-> epoch, with_arg |-> FALSE,
               arg |-> None]

\* after the on_epoch_end hooks: the scheduler is stepped if there is one
\* (lines 184-188), then the next epoch of the range, or the end of the try
\* block
EndEpoch ==
    /\ pc = "on_epoch_end"
    /\ cbi > Len(callbacks)
    /\ cbi' = 1
    /\ LET st == IF scheduler = "none" THEN [exc |-> "none"]
                 ELSE SchedulerStep(scheduler, valid_loss, curr_epoch)
       IN  IF st.exc # "none"
           THEN /\ Propagate
                /\ UNCHANGED <<curr_epoch, sched_steps>>
           ELSE /\ sched_steps' = IF scheduler = "none" THEN sched_steps
                                  ELSE Append(sched_steps, st)
                /\ IF curr_epoch < end_epoch
                   THEN /\ curr_epoch' = curr_epoch + 1
                        /\ pc' = "on_epoch_begin"
                   ELSE /\ pc' = "on_train_end"
                        /\ UNCHANGED curr_epoch
                /\ UNCHANGED <<outcome, calls, hooks>>
    /\ UNCHANGED <<model, opt_steps, metrics, last_epoch, has_validation,
                   n_batches, train_loss, valid_loss, ck, am, sg, lr, files,
                   n_epochs, end_epoch, curr_batch, epo_loss, epo_samples, lf,
                   interrupted, pre, fits_left, epochs_left, lr_finds_left,
                   Config, batches, other, saves_left>>

\* the pcs inside the try block, lines 90-188
TryPcs == HookNames \ {"on_train_end"}

\* lines 190-191: a KeyboardInterrupt raised anywhere inside the try block
\* is caught, and control goes to the on_train_end loop
Interrupt ==
    /\ pc \in TryPcs
    /\ ~interrupted
    /\ interrupted' = TRUE
    /\ hooks' = Append(hooks, HookRecord("KeyboardInterrupt", 0))
    /\ pc' = "on_train_end"
    /\ cbi' = 1
    /\ UNCHANGED <<model, opt_steps, metrics, last_epoch, has_validation,
                   n_batches, train_loss, valid_loss, ck, am, sg, lr, files,
                   n_epochs, curr_epoch, end_epoch, curr_batch, epo_loss,
                   epo_samples, lf, outcome, pre, calls, fits_left,
                   epochs_left, lr_finds_left, Config, batches,
                   sched_steps, other, saves_left>>

\* an exception other than KeyboardInterrupt raised by the model, the
\* criterion or the optimizer in _do_optimize / _do_evaluate: not caught
RaiseError ==
    /\ pc \in {"on_batch_begin", "on_vbatch_begin"}
    /\ cbi > Len(callbacks)
    /\ Propagate
    /\ UNCHANGED <<model, opt_steps, metrics, last_epoch, has_validation,
                   n_batches, train_loss, valid_loss, ck, am, sg, lr, files,
                   cbi, n_epochs, curr_epoch, end_epoch, curr_batch, epo_loss,
                   epo_samples, lf, interrupted, pre, fits_left, epochs_left,
                   lr_finds_left, Config, batches, sched_steps, other,
                   saves_left>>

\* after the on_train_end hooks, line 194: fit_loader returns
Return ==
    /\ pc = "on_train_end"
    /\ cbi > Len(callbacks)
    /\ pc' = "idle"
    /\ outcome' = "returned"
    /\ calls' = Append(calls, CallRecord("returned", HookState))
    /\ UNCHANGED <<model, opt_steps, metrics, last_epoch, has_validation,
                   n_batches, train_loss, valid_loss, ck, am, sg, lr, files, cbi,
                   n_epochs, curr_epoch, end_epoch, curr_batch, epo_loss,
                   epo_samples, lf, interrupted, hooks, pre, fits_left,
                   epochs_left, lr_finds_left, Config, batches,
                   sched_steps, other, saves_left>>

----------------------------------------------------------------------------
\* save_state, and load_state on a second trainer

\* trainer.save_state('user') between two calls
SaveState ==
    /\ pc = "idle"
    /\ saves_left > 0
    /\ saves_left' = saves_left - 1
    /\ SetHookState(save_state(HookState, "user"))
    /\ pre' = Snapshot("save_state")
    /\ other' = NoOther
    /\ UNCHANGED <<opt_steps, has_validation, n_batches, train_loss,
                   valid_loss, pc, cbi, n_epochs, curr_epoch, end_epoch,
                   curr_batch, epo_loss, epo_samples, lf, outcome,
                   interrupted, hooks, batches, sched_steps, calls, fits_left,
                   epochs_left, lr_finds_left, Config>>

\* a trainer as constructed over the same storage
FreshTrainer ==
    [HookState EXCEPT !.model = 0, !.metrics = EmptyMetrics,
                      !.last_epoch = 0]

\* other.load_state('user') on a freshly constructed trainer, once a state
\* has been saved under that name
LoadFresh ==
    /\ pc = "idle"
    /\ files.user.exists
    /\ ~other.loaded
    /\ LET s == load_state(FreshTrainer, "user")
       IN  other' = [loaded |-> TRUE, model |-> s.model,
                     metrics |-> s.metrics, last_epoch |-> s.last_epoch,
                     exc |-> s.exc]
    /\ UNCHANGED <<model, opt_steps, metrics, last_epoch, has_validation,
                   n_batches, train_loss, valid_loss, ck, sg, am, lr, files,
                   pc, cbi, n_epochs, curr_epoch, end_epoch, curr_batch,
                   epo_loss, epo_samples, lf, outcome, interrupted, hooks,
                   batches, sched_steps, pre, calls, fits_left, epochs_left,
                   lr_finds_left, saves_left, Config>>

----------------------------------------------------------------------------
\* lr_find

\* the losses the sweep can record
LrLossValues == {1, 2, 20001}

\* the test that ends the sweep, lines 343-346: the budget and the blow-up
\* are only looked at when the loss is not a new best
SweepBreaks(iloss, best, i, num_it) ==
    IF iloss < best THEN FALSE
    ELSE iloss > best * LR_FIND_BLOWUP \/ i = num_it - 1

\* lines 306-323: num_it defaults to len(dataloader) (also when it is 0), the
\* throwaway optimizer is built on the model's parameters, and the state is
\* saved under 'tmp'
LrFind(num_it, n) ==
    /\ pc = "idle"
    /\ lr_finds_left > 0
    /\ lr_finds_left' = lr_finds_left - 1
    /\ lf' = [NoLrFind EXCEPT !.n = n,
                              !.num_it = IF num_it = 0 THEN n ELSE num_it,
                              !.outcome = "running"]
    /\ SetHookState(save_state(HookState, "tmp"))
    /\ pre' = Snapshot("lr_find")
    /\ pc' = IF n > 0 THEN "lr_find" ELSE "lr_finally"
    /\ UNCHANGED <<opt_steps, has_validation, n_batches, train_loss,
                   valid_loss, cbi, n_epochs, curr_epoch, end_epoch,
                   curr_batch, epo_loss, epo_samples, outcome, interrupted,
                   hooks, calls, fits_left, epochs_left, Config, batches,
                   sched_steps, other, saves_left>>

\* lines 326-346, one batch of the sweep: the throwaway scheduler and
\* optimizer are stepped, the latter on the trainer's model
LrFindBatch ==
    /\ pc = "lr_find"
    /\ \E iloss \in LrLossValues :
          LET brk == SweepBreaks(iloss, lf.best, lf.i, lf.num_it)
          IN  /\ lf' = [lf EXCEPT !.lrs = Append(@, lf.i + 1),
                                  !.losses = Append(@, iloss),
                                  !.best = IF iloss < @ THEN iloss ELSE @,
                                  !.i = IF brk THEN @ ELSE @ + 1]
              /\ pc' = IF brk \/ lf.i + 1 = lf.n
                       THEN "lr_finally" ELSE "lr_find"
    /\ model' = model + 1
    /\ UNCHANGED <<opt_steps, metrics, last_epoch, has_validation, n_batches,
                   train_loss, valid_loss, ck, am, sg, lr, files, cbi, n_epochs,
                   curr_epoch, end_epoch, curr_batch, epo_loss, epo_samples,
                   outcome, interrupted, hooks, pre, calls, fits_left,
                   epochs_left, lr_finds_left, Config, batches,
                   sched_steps, other, saves_left>>

\* an exception (a KeyboardInterrupt too) inside the sweep loop: before the
\* lr of the batch is recorded (lines 327-332), after that and before the
\* optimizer step (lines 335-338), or after the step (line 341); "except:
\* raise" passes it on
LrFindRaise ==
    /\ pc = "lr_find"
    /\ \E at \in {"before_lr", "before_step", "after_step"} :
          /\ model' = IF at = "after_step" THEN model + 1 ELSE model
          /\ lf' = [lf EXCEPT !.exc = "error",
                              !.lrs = IF at = "before_lr" THEN @
                                      ELSE Append(@, lf.i + 1)]
    /\ pc' = "lr_finally"
    /\ UNCHANGED <<opt_steps, metrics, last_epoch, has_validation, n_batches,
                   train_loss, valid_loss, ck, am, sg, lr, files, cbi, n_epochs,
                   curr_epoch, end_epoch, curr_batch, epo_loss, epo_samples,
                   outcome, interrupted, hooks, pre, calls, fits_left,
                   epochs_left, lr_finds_left, Config, batches,
                   sched_steps, other, saves_left>>

\* lines 350-358: the finally block loads the state saved under 'tmp'; then
\* the exception propagates, or (lrs, losses) is returned
LrFindFinally ==
    /\ pc = "lr_finally"
    /\ LET s == load_state(HookState, "tmp")
       IN  /\ SetHookState(s)
           /\ lf' = [lf EXCEPT !.outcome =
                         IF lf.exc # "none" \/ s.exc # "none"
                         THEN "raised" ELSE "returned"]
    /\ pc' = "idle"
    /\ UNCHANGED <<opt_steps, has_validation, n_batches, train_loss,
                   valid_loss, cbi, n_epochs, curr_epoch, end_epoch,
                   curr_batch, epo_loss, epo_samples, outcome, interrupted,
                   hooks, pre, calls, fits_left, epochs_left, lr_finds_left,
                   Config, batches,
                   sched_steps, other, saves_left>>

----------------------------------------------------------------------------
Next ==
    \/ \E n \in 0..Max(MaxEpochsLong, MaxEpochsSGDR), v \in BOOLEAN :
          Fit(n, v)
    \/ CallHook
    \/ StartEpochs
    \/ StartTraining
    \/ DoOptimize
    \/ EndBatch
    \/ DoEvaluate
    \/ EndVBatch
    \/ EndEpoch
    \/ Interrupt
    \/ RaiseError
    \/ Return
    \/ \E num_it \in 0..(MaxLrBatches + 1), n \in 1..MaxLrBatches :
          LrFind(num_it, n)
    \/ LrFindBatch
    \/ LrFindRaise
    \/ LrFindFinally
    \/ SaveState
    \/ LoadFresh

Spec == Init /\ [][Next]_vars

----------------------------------------------------------------------------
\* Properties

IsPrefix(a, b) == Len(a) <= Len(b) /\ a = SubSeq(b, 1, Len(a))

\* the hooks callback i has seen in this fit_loader call
Seen(i) ==
    LET Mine(r) == r.cb = i IN SelectSeq(hooks, Mine)

\* how often callback i has seen hook h in this fit_loader call
TimesSeen(i, h) ==
    LET MineH(r) == r.cb = i /\ r.h = h IN Len(SelectSeq(hooks, MineH))

HookCall(h, i, e, b) == [h |-> h, cb |-> i, epoch |-> e, batch |-> b]

RECURSIVE BatchCalls(_, _, _, _, _, _)
BatchCalls(i, e, b, nb, hbegin, hend) ==
    IF b >= nb THEN <<>>
    ELSE <<HookCall(hbegin, i, e, b), HookCall(hend, i, e, b)>>
             \o BatchCalls(i, e, b + 1, nb, hbegin, hend)

RECURSIVE EpochCalls(_, _, _)
EpochCalls(i, e, last) ==
    IF e > last THEN <<>>
    ELSE <<HookCall("on_epoch_begin", i, e, 0)>>
           \o BatchCalls(i, e, 0, Len(train_data),
                         "on_batch_begin", "on_batch_end")
           \o (IF has_validation
               THEN BatchCalls(i, e, 0, Len(valid_data),
                               "on_vbatch_begin", "on_vbatch_end")
               ELSE <<>>)
           \o <<HookCall("on_epoch_end", i, e, 0)>>
           \o EpochCalls(i, e + 1, last)

\* the lifecycle of the claim, for the epochs this call iterates over
Lifecycle(i) ==
    <<HookCall("on_train_begin", i, 0, 0)>>
        \o EpochCalls(i, end_epoch - n_epochs + 1, end_epoch)
        \o <<HookCall("on_train_end", i, 0, 0)>>

\* C1: in a fit_loader call that is neither interrupted nor left by an
\* exception, every registered callback sees on_train_begin once, then per
\* epoch on_epoch_begin, the training batches' on_batch_begin/on_batch_end
\* pairs, then (with validation data only) the validation batches'
\* on_vbatch_begin/on_vbatch_end pairs, then on_epoch_end, and on_train_end
\* once, last; while the call runs, what it has seen is a prefix of that.
C1_LifecycleOrder ==
    /\ (outcome = "returned" /\ ~interrupted) =>
           \A i \in DOMAIN callbacks : Seen(i) = Lifecycle(i)
    /\ (outcome = "running" /\ ~interrupted /\ pc # "on_train_begin") =>
           \A i \in DOMAIN callbacks : IsPrefix(Seen(i), Lifecycle(i))

\* a completed call of two epochs with validation and two callbacks, and one
\* over two-batch loaders
C1_Witness ==
    /\ outcome = "returned" /\ ~interrupted
    /\ n_epochs = 2 /\ has_validation
    /\ Len(callbacks) = 2
    /\ Len(train_data) = 2 /\ Len(valid_data) = 2

\* the KeyboardInterrupt of this call was raised inside the epoch loop
InterruptedInEpochLoop ==
    \E j, k \in DOMAIN hooks :
        j < k /\ hooks[j].h = "on_epoch_begin"
              /\ hooks[k].h = "KeyboardInterrupt"

\* C2: after a KeyboardInterrupt inside the epoch loop no further epoch or
\* batch hook fires, on_train_end is invoked exactly once on every
\* registered callback, and fit_loader returns normally.
C2_InterruptEndsGracefully ==
    (pc = "idle" /\ interrupted /\ InterruptedInEpochLoop) =>
        /\ outcome = "returned"
        /\ \A i \in DOMAIN callbacks : TimesSeen(i, "on_train_end") = 1
        /\ \A j, k \in DOMAIN hooks :
               (hooks[j].h = "KeyboardInterrupt" /\ j < k)
                   => hooks[k].h = "on_train_end"

\* C3: an uninterrupted fit of N epochs with validation data appends N
\* entries to the train losses and N to the valid losses, and last_epoch
\* ends N above its value before the call.
C3_FitAppendsAndAdvances ==
    \A k \in DOMAIN calls :
        LET c == calls[k]
        IN  (c.outcome = "returned" /\ ~c.interrupted /\ c.valid) =>
                /\ Len(c.metrics.train.losses)
                       = Len(c.pre.metrics.train.losses) + c.n
                /\ Len(c.metrics.valid.losses)
                       = Len(c.pre.metrics.valid.losses) + c.n
                /\ c.last_epoch = c.pre.last_epoch + c.n

\* the epochs callback i was given with hook h in this call, in order
EpochsSeen(i, h) ==
    LET MineH(r) == r.cb = i /\ r.h = h
        sel == SelectSeq(hooks, MineH)
    IN  [j \in DOMAIN sel |-> sel[j].epoch]

\* C4: after fit with N1 epochs and then fit with N2 epochs (neither
\* interrupted) the train loss history has N1+N2 entries and the second call
\* passed the epochs N1+1, ..., N1+N2 to on_epoch_begin and on_epoch_end.
C4_TwoFitsContinue ==
    (/\ pc = "idle" /\ Len(calls) = 2 /\ pre.call = "fit"
     /\ calls[2].pre.prev = "fit"
     /\ \A k \in 1..2 : calls[k].outcome = "returned" /\ ~calls[k].interrupted)
    => /\ Len(calls[2].metrics.train.losses) = calls[1].n + calls[2].n
       /\ \A i \in DOMAIN callbacks :
            \A h \in {"on_epoch_begin", "on_epoch_end"} :
               EpochsSeen(i, h) = [j \in 1..calls[2].n |-> calls[1].n + j]

\* the state of a trainer as constructed
Fresh(p) == p.metrics = EmptyMetrics /\ p.last_epoch = 0 /\ p.model = 0

\* C5: an uninterrupted fit of N >= 1 epochs without validation data on a
\* fresh trainer leaves exactly N valid losses, all None.
C5_NoValidationPlaceholders ==
    (/\ Len(calls) >= 1 /\ Fresh(calls[1].pre)
     /\ calls[1].outcome = "returned" /\ ~calls[1].interrupted
     /\ ~calls[1].valid /\ calls[1].n >= 1)
    => calls[1].metrics.valid.losses = [j \in 1..calls[1].n |-> None]

\* the index of the first callback of a kind (0: none is registered)
IndexOf(kind) ==
    IF \E i \in DOMAIN callbacks : callbacks[i] = kind
    THEN CHOOSE i \in DOMAIN callbacks :
             /\ callbacks[i] = kind
             /\ \A j \in 1..(i - 1) : callbacks[j] # kind
    ELSE 0

\* the loss ModelCheckpoint monitors for the e-th entry of a history
Monitored(m, e) == PyOr(m.valid.losses[e], m.train.losses[e])

\* the history cut to its first e epochs
FirstEpochs(m, e) ==
    [ph \in DOMAIN m |-> [losses |-> SubSeq(m[ph].losses, 1, e)]]

\* the first fit on a fresh trainer with no checkpoint on storage, up to the
\* ModelCheckpoint's on_train_end
FirstFitNoCheckpoint ==
    /\ IndexOf("ckpt") > 0
    /\ calls = <<>> /\ pre.call = "fit" /\ Fresh(pre)
    /\ ~pre.files.ckpt.exists
    /\ TimesSeen(IndexOf("ckpt"), "on_train_end") = 0

\* the epochs whose on_epoch_end the ModelCheckpoint has run in this call
CheckpointedEpochs == 1..TimesSeen(IndexOf("ckpt"), "on_epoch_end")

\* C6: on a fresh trainer with no prior checkpoint, ModelCheckpoint saves at
\* epoch e exactly when the monitored loss of e is strictly below that of
\* every earlier epoch; the snapshot (best_loss, best_epoch, best_model) and
\* the stored model and history are those of the last such epoch; the
\* monitored losses 5, 5, 4, 6 give the saves 1 and 3.
C6_SavesOnStrictImprovement ==
    FirstFitNoCheckpoint =>
        /\ \A e \in CheckpointedEpochs :
              (\E j \in DOMAIN ck.saved : ck.saved[j] = e)
                  <=> (\A d \in 1..(e - 1) :
                          Monitored(metrics, e) < Monitored(metrics, d))
        /\ ck.saved # <<>> =>
              LET b == Last(ck.saved)
              IN  /\ ck.best_epoch = b
                  /\ ck.best_loss = Monitored(metrics, b)
                  /\ ck.best_model = b * Len(train_data)
                  /\ files.ckpt = [exists |-> TRUE, model |-> ck.best_model,
                                   histo |-> FirstEpochs(metrics, b)]
        /\ (/\ CheckpointedEpochs = 1..4
            /\ \A e \in 1..4 : Monitored(metrics, e) = <<5, 5, 4, 6>>[e])
              => ck.saved = <<1, 3>>

\* the monitored losses 5, 5, 4, 6 have been seen
C6_Witness ==
    /\ FirstFitNoCheckpoint
    /\ CheckpointedEpochs = 1..4
    /\ \A e \in 1..4 : Monitored(metrics, e) = <<5, 5, 4, 6>>[e]
    /\ ck.saved = <<1, 3>>

\* C7: with num_it <= len(dataloader), lr_find processes at most num_it
\* batches: lrs and losses never have more than num_it entries.
C7_SweepWithinBudget ==
    (lf.outcome # "none" /\ lf.num_it <= lf.n) =>
        Len(lf.losses) <= lf.num_it /\ Len(lf.lrs) <= lf.num_it

\* C8: the sweep never steps the trainer's own optimizer, and however it
\* ends (budget, blow-up, data exhausted, exception) the model's parameters
\* are afterwards those lr_find was called with.
C8_LrFindRestoresModel ==
    pre.call = "lr_find" =>
        /\ opt_steps = pre.opt_steps
        /\ lf.outcome \in {"returned", "raised"} => model = pre.model

\* a sweep on a trained model that recorded a batch and then ended by an
\* exception
C8_Witness ==
    /\ pre.call = "lr_find" /\ lf.outcome = "raised"
    /\ Len(lf.losses) = 1 /\ pre.model > 0

\* restarts so far at the k-th batch when a restart falls every Ti batches
\* counted from the first batch, Ti = To * Tmul^restarts
RECURSIVE RestartsEveryTi(_, _, _, _)
RestartsEveryTi(k, To, Tmul, r) ==
    LET Ti == To * (Tmul ^ r)
    IN  IF k <= Ti THEN r ELSE RestartsEveryTi(k - Ti, To, Tmul, r + 1)

\* the first fit of a fresh trainer that drives SGDRestarts, right after the
\* schedule's on_batch_begin
AfterScheduleStep ==
    /\ IndexOf("sgdr") > 0
    /\ calls = <<>> /\ pre.call = "fit" /\ Fresh(pre)
    /\ pc = "on_batch_begin" /\ cbi > IndexOf("sgdr")

\* C9: with To = 4 and one batch per epoch, on a trainer whose last_epoch
\* is 0, a restart happens once every Ti batches counted from the first
\* batch (the first period is To batches long too), Ti = To * Tmul^restarts.
C9_RestartEveryTiBatches ==
    (AfterScheduleStep /\ sg.To = 4 /\ n_batches = 1) =>
        /\ sg.restarts =
              RestartsEveryTi(TimesSeen(IndexOf("sgdr"), "on_batch_begin"),
                              sg.To, sg.Tmul, 0)
        /\ sg.Ti = sg.To * (sg.Tmul ^ sg.restarts)

\* C10: at the very first batch of a training run Tcur is 0 and the phase x
\* is 0 (the lr is initial_lr); at the last batch of a period (Tcur = Ti-1,
\* batch = n_batches-1, Ti*n_batches > 1) the phase x equals Ti (the lr is
\* eta_min).
C10_PhaseAtPeriodEnds ==
    AfterScheduleStep =>
        /\ TimesSeen(IndexOf("sgdr"), "on_batch_begin") = 1
              => sg.Tcur = 0 /\ lr.num = 0
        /\ (/\ sg.Tcur = sg.Ti - 1 /\ curr_batch = n_batches - 1
            /\ sg.Ti * n_batches > 1)
              => lr.num = sg.Ti * lr.den

\* C11: save_state(b) followed by load_state(b) on a freshly constructed
\* trainer gives a trainer whose model parameters are the saved ones, whose
\* MetricStore equals the saved one (every phase, every metric list) and
\* whose last_epoch is the length of the restored train losses.
C11_SaveLoadRoundTrip ==
    (pre.call = "save_state" /\ other.loaded) =>
        /\ other.exc = "none"
        /\ other.model = pre.model
        /\ other.metrics = pre.metrics
        /\ other.last_epoch = Len(other.metrics.train.losses)

\* a trainer saved after two fit calls with an AccuracyMetric, and loaded
C11_Witness ==
    /\ pre.call = "save_state" /\ other.loaded
    /\ pre.model > 0
    /\ Len(pre.metrics.train.losses) = 2
    /\ "acc" \in DOMAIN pre.metrics.valid
    /\ pre.metrics.valid.acc # <<>>
    /\ other.last_epoch = 2

\* the batches of a phase of an epoch that this fit_loader call processed
BatchesOf(phase, e) ==
    LET Those(b) == b.phase = phase /\ b.epoch = e
    IN  SelectSeq(batches, Those)

\* the sum of a field over a sequence of batches
RECURSIVE SumField(_, _)
SumField(bs, f) ==
    IF bs = <<>> THEN 0 ELSE bs[1][f] + SumField(Tail(bs), f)

\* the AccuracyMetric has just handled on_epoch_end
AfterAccuracyEpochEnd ==
    /\ IndexOf("acc") > 0
    /\ pc = "on_epoch_end" /\ cbi = IndexOf("acc") + 1

\* the j-th acc value of a phase is (sum of k) / (sum of m) over the batches
\* of the j-th epoch of this call, of done epochs ended so far
AccuracyIsRatio(phase, done) ==
    /\ Len(metrics[phase].acc) = done
    /\ \A j \in 1..done :
          LET bs == BatchesOf(phase, curr_epoch - done + j)
              v  == metrics[phase].acc[j]
          IN  /\ bs # <<>>
              /\ v.num * SumField(bs, "size") = SumField(bs, "k") * v.den

\* C12: at on_epoch_end the AccuracyMetric appends, to each phase that saw
\* a sample, (sum of the epoch's per-batch matches k) / (sum of the epoch's
\* batch sizes m); counts of an earlier epoch do not leak into a later
\* value, and a phase that saw no sample gets no value.
C12_AccuracyIsEpochRatio ==
    AfterAccuracyEpochEnd =>
        LET done == TimesSeen(IndexOf("acc"), "on_epoch_end")
        IN  /\ AccuracyIsRatio("train", done)
            /\ IF has_validation THEN AccuracyIsRatio("valid", done)
               ELSE metrics.valid.acc = <<>>

\* a second epoch all of whose predictions match, after a first epoch where
\* only those of the second training batch did
C12_Witness ==
    /\ AfterAccuracyEpochEnd /\ has_validation
    /\ train_data = <<2, 1>>
    /\ metrics.train.acc = <<Ratio(1, 3), Ratio(3, 3)>>
    /\ metrics.valid.acc = <<Ratio(0, 1), Ratio(1, 1)>>

\* the hooks fired so far in this call, without the mark of an exception
HooksFired ==
    LET IsHook(r) == r.h \in HookNames IN SelectSeq(hooks, IsHook)

\* C13: at every hook the callbacks are invoked in the order they were
\* passed at construction: callback i+1 is given a hook right after
\* callback i was given the same one (same epoch and batch), a round of a
\* hook starts at the first callback, and the round before it went up to
\* the last one unless a KeyboardInterrupt cut it short; and every
\* callback's trainer is this trainer before any hook fires.
C13_RegistrationOrder ==
    /\ \A i \in DOMAIN callbacks : trainer_of[i] = "self"
    /\ \A j \in DOMAIN HooksFired :
          LET r == HooksFired[j]
          IN  /\ r.cb \in DOMAIN callbacks
              /\ r.cb > 1 =>
                    /\ j > 1
                    /\ HooksFired[j - 1] = [r EXCEPT !.cb = r.cb - 1]
              /\ (r.cb = 1 /\ j > 1) =>
                    /\ HooksFired[j - 1] # [r EXCEPT !.cb = Len(callbacks)]
                    /\ \/ HooksFired[j - 1].cb = Len(callbacks)
                       \/ /\ interrupted /\ r.h = "on_train_end"
                          /\ TimesSeen(1, "on_train_end") = 1
    /\ (pc = "idle" /\ outcome = "returned" /\ HooksFired # <<>>) =>
          HooksFired[Len(HooksFired)].cb = Len(callbacks)

\* two callbacks have each been given all eight hooks of a call that returned
C13_Witness ==
    /\ Len(callbacks) = 2 /\ pc = "idle" /\ outcome = "returned"
    /\ \A i \in 1..2, h \in HookNames : TimesSeen(i, h) >= 1

\* the batches of a phase that this fit_loader call has run through
\* _do_optimize or _do_evaluate
BatchesRun(phase) ==
    LET Those(b) == b.phase = phase IN Len(SelectSeq(batches, Those))

\* every batch a callback was given the begin hook of has been run and
\* every callback was given its end hook
BatchesCompleted(phase, hbegin, hend) ==
    \A i \in DOMAIN callbacks :
        /\ TimesSeen(i, hbegin) = TimesSeen(1, hbegin)
        /\ TimesSeen(i, hend) = TimesSeen(1, hbegin)
        /\ BatchesRun(phase) = TimesSeen(1, hbegin)

\* C14: an interrupt that arrives while a batch is in flight aborts fit only
\* after that batch: when on_train_end is invoked, every batch whose
\* on_batch_begin (on_vbatch_begin) fired has been optimized (evaluated)
\* and its on_batch_end (on_vbatch_end) has fired on every callback.
C14_InterruptAfterBatch ==
    pc = "on_train_end" =>
        /\ BatchesCompleted("train", "on_batch_begin", "on_batch_end")
        /\ BatchesCompleted("valid", "on_vbatch_begin", "on_vbatch_end")

\* the epochs asked for by the fit calls finished so far
RECURSIVE EpochsOfCalls(_)
EpochsOfCalls(cs) ==
    IF cs = <<>> THEN 0 ELSE cs[1].n + EpochsOfCalls(Tail(cs))

\* every fit call so far had validation data, was not interrupted and
\* returned
OnlyCompleteValidatedFits ==
    /\ pc = "idle" /\ calls # <<>>
    /\ \A c \in DOMAIN calls :
          /\ calls[c].valid /\ ~calls[c].interrupted
          /\ calls[c].outcome = "returned"

\* C15: after any sequence of uninterrupted fit calls with validation data
\* and an AccuracyMetric registered, the losses and acc lists of both phases
\* all have the same length, the total number of completed epochs over all
\* the calls.
C15_OneValuePerEpoch ==
    (IndexOf("acc") > 0 /\ OnlyCompleteValidatedFits) =>
        \A ph \in {"train", "valid"} :
            /\ Len(metrics[ph].losses) = EpochsOfCalls(calls)
            /\ "acc" \in DOMAIN metrics[ph]
            /\ Len(metrics[ph].acc) = EpochsOfCalls(calls)

\* an exception other than KeyboardInterrupt was raised in this call
ExceptionRaised == \E j \in DOMAIN hooks : hooks[j].h = "Exception"

\* C16: an exception other than KeyboardInterrupt raised by the model, the
\* criterion, the optimizer or a callback hook during fit_loader is not
\* caught: the call ends by raising it, no hook fires after it, and
\* on_train_end is not invoked for it (no on_train_end at all unless the
\* exception came out of the on_train_end loop itself).
C16_ExceptionsPropagate ==
    \A j \in DOMAIN hooks :
        hooks[j].h = "Exception" =>
            /\ j = Len(hooks) /\ j > 1
            /\ pc \notin HookNames /\ outcome = "raised"
            /\ calls # <<>> /\ calls[Len(calls)].outcome = "raised"
            /\ hooks[j - 1].h # "on_train_end" =>
                  \A i \in DOMAIN callbacks : TimesSeen(i, "on_train_end") = 0

\* the model or the criterion raised on a validation batch of the second
\* epoch, with two callbacks registered
C16_Witness ==
    /\ ExceptionRaised /\ Len(callbacks) = 2
    /\ hooks[Len(hooks) - 1].h = "on_vbatch_begin"
    /\ hooks[Len(hooks) - 1].epoch = 2
    /\ pc = "idle" /\ outcome = "raised"

\* a fit_loader call on a trainer with a scheduler attached, running or
\* just ended
FitWithScheduler ==
    /\ scheduler # "none"
    /\ pre.call = "fit" /\ outcome \in {"running", "returned", "raised"}

\* the validation loss computed in the j-th epoch of this call
ValidLossOfEpoch(j) ==
    metrics.valid.losses[Len(pre.metrics.valid.losses) + j]

\* C17: with a scheduler attached, fit_loader steps it exactly once per
\* completed epoch, after that epoch's on_epoch_end; a ReduceLROnPlateau
\* in a call with validation is stepped with the validation loss of that
\* same epoch, and in every other case (other scheduler, or no validation
\* in this call) the scheduler is stepped with no argument and without
\* raising.
C17_SchedulerStep ==
    FitWithScheduler =>
        LET ended == TimesSeen(Len(callbacks), "on_epoch_end")
            plateau == scheduler = "ReduceLROnPlateau" /\ has_validation
        IN  /\ Len(sched_steps) \in {ended - 1, ended}
            /\ pc \notin {"on_epoch_end", "on_train_end", "idle"} =>
                  Len(sched_steps) = ended
            /\ (outcome = "returned" /\ ~interrupted) =>
                  Len(sched_steps) = n_epochs
            /\ \A j \in DOMAIN sched_steps :
                  /\ sched_steps[j].epoch =
                        EpochsSeen(Len(callbacks), "on_epoch_end")[j]
                  /\ sched_steps[j].with_arg = plateau
                  /\ plateau => sched_steps[j].arg = ValidLossOfEpoch(j)
            /\ ~plateau =>
                  ~(/\ ExceptionRaised
                    /\ hooks[Len(hooks) - 1].h = "on_epoch_end")

\* the train and valid losses of a history have the same length
Aligned(m) == Len(m.train.losses) = Len(m.valid.losses)

\* C18: at the end of every fit_loader call, completed or interrupted at
\* any point, metrics['train']['losses'] and metrics['valid']['losses'] have
\* the same length (given that they had when the call began).
C18_LossesAligned ==
    \A c \in DOMAIN calls :
        (calls[c].outcome = "returned" /\ Aligned(calls[c].pre.metrics)) =>
            Aligned(calls[c].metrics)

\* what the batches contribute to the accumulated loss: batch_size * loss
\* each if the criterion averages, the plain loss otherwise
RECURSIVE SumContributions(_)
SumContributions(bs) ==
    IF bs = <<>> THEN 0
    ELSE (IF size_average THEN bs[1].size * bs[1].loss ELSE bs[1].loss)
         + SumContributions(Tail(bs))

\* a fit_loader call, running or ended, on a trainer whose history no
\* callback reloads
FitWithoutReload ==
    /\ IndexOf("ckpt") = 0
    /\ pre.call = "fit" /\ outcome \in {"running", "returned", "raised"}

\* the j-th loss a phase got in this call is (sum of contributions) / (sum
\* of batch sizes) over the batches of that phase in the call's j-th epoch
LossIsEpochMean(phase, j) ==
    LET bs == BatchesOf(phase, pre.last_epoch + j)
        v  == metrics[phase].losses[Len(pre.metrics[phase].losses) + j]
    IN  /\ bs # <<>>
        /\ v * SumField(bs, "size") = SumContributions(bs)

\* C19: the epoch loss appended for a phase is the accumulated loss over
\* the number of samples seen in that phase of that epoch, a batch
\* contributing batch_size * loss if the criterion has a truthy
\* size_average and loss otherwise; both accumulators start from 0 in the
\* training phase and again in the validation phase of every epoch.
C19_EpochLossIsMean ==
    FitWithoutReload =>
        \A ph \in {"train", "valid"} :
            \A j \in 1..(Len(metrics[ph].losses)
                          - Len(pre.metrics[ph].losses)) :
                IF ph = "valid" /\ ~has_validation
                THEN metrics[ph].losses[Len(pre.metrics[ph].losses) + j]
                         = None
                ELSE LossIsEpochMean(ph, j)

\* two epochs on two-batch loaders (2 and 1 samples) with an averaging
\* criterion: training losses 3, 0 then 0, 3 and validation losses 0, 3
\* then 3, 0
C19_Witness ==
    /\ FitWithoutReload /\ size_average /\ has_validation
    /\ train_data = <<2, 1>> /\ valid_data = <<2, 1>>
    /\ pc = "on_epoch_end"
    /\ metrics.train.losses = <<2, 1>>
    /\ metrics.valid.losses = <<1, 2>>

\* the validation loss when there is one and it is not zero, the training
\* loss otherwise
Fallback(v, t) == IF v # None /\ v # 0 THEN v ELSE t

MinOf(S) == CHOOSE x \in S : \A y \in S : x <= y

\* a fit_loader call with a ModelCheckpoint, past its on_train_begin and
\* inside the try block, on a trainer whose earlier calls all returned
\* without an interrupt
InCheckpointedFit ==
    /\ IndexOf("ckpt") > 0
    /\ pre.call = "fit" /\ pc \in TryPcs
    /\ TimesSeen(IndexOf("ckpt"), "on_train_begin") = 1
    /\ \A c \in DOMAIN calls :
          calls[c].outcome = "returned" /\ ~calls[c].interrupted

\* C20: the loss the ModelCheckpoint monitors at on_epoch_end is the
\* epoch's validation loss when that is neither None nor 0 and the epoch's
\* training loss otherwise, and best_loss is initialised from the last
\* entries of an existing history with the same fallback: best_loss is the
\* least of these values over the history's last epoch and the epochs
\* ended since.
C20_MonitoredLossFallback ==
    InCheckpointedFit =>
        LET ended == TimesSeen(IndexOf("ckpt"), "on_epoch_end")
            Of(e) == Fallback(metrics.valid.losses[e],
                              metrics.train.losses[e])
            start == IF last_epoch > 0 THEN Of(last_epoch)
                     ELSE BEST_LOSS_INIT
        IN  ck.best_loss =
                MinOf({start} \cup
                      {Of(e) : e \in (last_epoch + 1)..(last_epoch + ended)})

\* a second fit call on a history whose last validation loss is 0 (so that
\* best_loss starts from the training loss 4), after a first epoch whose
\* validation loss 3 became the best
C20_Witness ==
    /\ InCheckpointedFit /\ Len(calls) = 1
    /\ pc = "on_epoch_end" /\ cbi = IndexOf("ckpt") + 1
    /\ last_epoch > 0 /\ metrics.valid.losses[last_epoch] = 0
    /\ Len(metrics.valid.losses) = last_epoch + 1
    /\ metrics.valid.losses[last_epoch + 1] = 3
    /\ ck.best_loss = 3

\* the ModelCheckpoint, registered first, has just handled on_train_begin
\* (or raised in it)
AfterCheckpointTrainBegin ==
    /\ IndexOf("ckpt") = 1 /\ pre.call = "fit"
    /\ \/ pc = "on_train_begin" /\ cbi = 2
       \/ /\ ExceptionRaised
          /\ hooks[Len(hooks) - 1] = HookCall("on_train_begin", 1, 0, 0)

\* C21: ModelCheckpoint.on_train_begin replaces the trainer's model and
\* MetricStore by the stored ones if a checkpoint exists and reset is
\* False, and keeps them otherwise; either way last_epoch is then the
\* number of train losses, and best_loss is 1e10 exactly when that number
\* is 0.
C21_TrainBeginRestores ==
    AfterCheckpointTrainBegin =>
        LET loads == pre.files.ckpt.exists /\ ~ck.reset
        IN  /\ model = IF loads THEN pre.files.ckpt.model ELSE pre.model
            /\ metrics = IF loads THEN pre.files.ckpt.histo
                         ELSE pre.metrics
            /\ last_epoch = Len(metrics.train.losses)
            /\ (ck.best_loss = BEST_LOSS_INIT) <=> (last_epoch = 0)

\* the first fit of a fresh trainer with no checkpoint on storage was not
\* interrupted, and its ModelCheckpoint(load_best=True), registered first,
\* has just handled on_train_end
AfterLoadBest ==
    /\ IndexOf("ckpt") = 1 /\ ck.load_best
    /\ calls = <<>> /\ pre.call = "fit" /\ Fresh(pre)
    /\ ~pre.files.ckpt.exists /\ ~interrupted
    /\ pc = "on_train_end" /\ cbi = 2

\* C22: on_train_end with load_best=True only sets the trainer's model to
\* the best snapshot's weights; the MetricStore is left as it was, so the
\* loss history still has one entry for every epoch that was run, the
\* epochs after the best one included.
C22_LoadBestKeepsHistory ==
    AfterLoadBest =>
        /\ model = ck.best_model
        /\ Len(metrics.train.losses) = n_epochs
        /\ Len(metrics.valid.losses) = n_epochs

\* the monitored loss of the epoch a stored checkpoint was saved at: the
\* last epoch of the history pickled with it
StoredLoss(f) ==
    Fallback(Last(f.histo.valid.losses), Last(f.histo.train.losses))

\* C23: across any sequence of fit calls with a ModelCheckpoint (any reset
\* setting), a save never replaces a stored checkpoint by a model whose
\* monitored loss is greater than or equal to that of the stored one.
C23_SaveOnlyImproves ==
    [][(files.ckpt.exists /\ files.ckpt' # files.ckpt) =>
           StoredLoss(files.ckpt') < StoredLoss(files.ckpt)]_vars

\* C24: lr_find leaves the training session state as it was: once it has
\* returned, last_epoch and the MetricStore are those of before the call.
C24_LrFindKeepsSession ==
    (pre.call = "lr_find" /\ lf.outcome = "returned") =>
        /\ last_epoch = pre.last_epoch
        /\ metrics = pre.metrics

\* a PrintCallback raised in its on_epoch_end
PrintRaised ==
    \E j \in DOMAIN hooks :
        /\ hooks[j].h = "Exception" /\ j > 1
        /\ hooks[j - 1].h = "on_epoch_end"
        /\ hooks[j - 1].cb \in DOMAIN callbacks
        /\ callbacks[hooks[j - 1].cb] = "print"

\* C25: PrintCallback.on_epoch_end never raises, with or without an
\* AccuracyMetric registered and with or without validation data: every
\* metric list it reads the latest value of is non-empty at that point.
C25_PrintNeverRaises == ~PrintRaised

====
